---- MODULE Spec2Model ----
\* Model of the token combinator engine (token_combinator/lib/src/lib.rs):
\* the error model, the parser abstraction and the combinators
\* many1, many0, opt, delimited, separated_list0, separated_list1 and map.
EXTENDS Integers, Sequences, FiniteSets, TLC

VARIABLES comb, args, tokens, rest, vec, items, succeeded_at_least_once,
          pc, result, calls

vars == <<comb, args, tokens, rest, vec, items, succeeded_at_least_once,
          pc, result, calls>>

\* ---------------------------------------------------------------- bounds
\* longest input slice handed to a combinator
MaxLen == 4
\* loop iterations allowed beyond the input length (caps a loop that
\* makes no progress)
MaxStall == 2

\* ---------------------------------------------------------------- data
\* token kinds (T); the wrapper W converts to T by identity here
Tokens == {"Digit", "Comma", "Paren"}

Inputs == UNION {[1..n -> Tokens] : n \in 0..MaxLen}

\* TokenParseErrorKind
Expects(e, f) == [kind |-> "Expects", expects |-> e, found |-> f]
NotEnoughToken == [kind |-> "NotEnoughToken", expects |-> "", found |-> ""]
Context(label) == [kind |-> "Context", expects |-> label, found |-> ""]

\* TokenParseError and TokenParseResult
Err(errors, n) == [ok |-> FALSE, errors |-> errors, tokens_consumed |-> n]
Ok(r, o) == [ok |-> TRUE, rest |-> r, out |-> o]

\* Option<O>
Some(o) == [some |-> TRUE, val |-> <<o>>]
None == [some |-> FALSE, val |-> <<>>]

\* TokenParseError::with_tokens_consumed, mutated: keeps the old count
with_tokens_consumed_keep(self, tokens_consumed) ==
    Err(self.errors, self.tokens_consumed)

\* TokenParseError::with_tokens_consumed
with_tokens_consumed(self, tokens_consumed) ==
    Err(self.errors, tokens_consumed)

\* s is a suffix of t
IsSuffix(s, t) ==
    /\ Len(s) <= Len(t)
    /\ s = SubSeq(t, Len(t) - Len(s) + 1, Len(t))

\* ---------------------------------------------------------------- inner parsers
\* Descriptors of the parsers handed to the combinators.
Leaf(t) == [kind |-> "leaf", tok |-> t]
OptLeaf(t) == [kind |-> "opt", tok |-> t]
Pair(t) == [kind |-> "pair", tok |-> t]

Parsers == {Leaf(t) : t \in Tokens}
           \cup {OptLeaf("Digit"), OptLeaf("Comma")}
           \cup {Pair("Digit")}

\* leaf parser: matches exactly the next token
leaf(t, s) ==
    IF s = <<>> THEN Err(<<NotEnoughToken>>, 0)
    ELSE IF Head(s) = t THEN Ok(Tail(s), t)
    ELSE Err(<<Expects(t, Head(s))>>, 0)

\* a hand-written closure: two tokens t in a row; a failure at the second
\* token reports one token consumed and a context label
pair(t, s) ==
    LET first == leaf(t, s) IN
    IF ~first.ok THEN first
    ELSE LET second == leaf(t, first.rest) IN
         IF ~second.ok THEN Err(second.errors \o <<Context("pair")>>, 1)
         ELSE Ok(second.rest, <<first.out, second.out>>)

RECURSIVE Apply(_, _)

\* opt, mutated: propagates the inner failure
opt_propagate(parser, toks) ==
    LET r == Apply(parser, toks) IN
    IF r.ok THEN Ok(r.rest, Some(r.out)) ELSE r

\* opt
opt(parser, toks) ==
    LET r == Apply(parser, toks) IN
    IF r.ok THEN Ok(r.rest, Some(r.out)) ELSE Ok(toks, None)

\* TokenParser::parse for a descriptor
Apply(p, s) ==
    CASE p.kind = "leaf" -> leaf(p.tok, s)
      [] p.kind = "pair" -> pair(p.tok, s)
      [] p.kind = "opt" -> opt(Leaf(p.tok), s)

\* one recorded invocation of an inner parser
Call(p, s) == [parser |-> p, input |-> s, res |-> Apply(p, s)]

Pending == [pending |-> TRUE]

\* value of the locals after a loop iteration or a return
Locals(p, r, v, s, res, c) ==
    [pc |-> p, rest |-> r, vec |-> v, succ |-> s, result |-> res, called |-> c]

\* ---------------------------------------------------------------- combinators
\* many1: one pass through the while loop (condition check included)
many1_iter(parser, r, v, succ) ==
    IF Len(r) > 0
    THEN LET res == Apply(parser, r) IN
         IF res.ok
         THEN Locals("loop", res.rest, Append(v, res.out), TRUE, Pending,
                     <<Call(parser, r)>>)
         ELSE IF succ
              THEN Locals("done", r, v, succ, Ok(r, v), <<Call(parser, r)>>)
              ELSE Locals("done", r, v, succ, res, <<Call(parser, r)>>)
    ELSE Locals("done", r, v, succ, Ok(r, v), <<>>)

\* many0, mutated: a failure of the inner parser is returned
many0_iter_fail(parser, r, v) ==
    IF Len(r) > 0
    THEN LET res == Apply(parser, r) IN
         IF res.ok
         THEN Locals("loop", res.rest, Append(v, res.out), FALSE, Pending,
                     <<Call(parser, r)>>)
         ELSE Locals("done", r, v, FALSE, res, <<Call(parser, r)>>)
    ELSE Locals("done", r, v, FALSE, Ok(r, v), <<>>)

\* many0: one pass through the while loop (condition check included)
many0_iter(parser, r, v) ==
    IF Len(r) > 0
    THEN LET res == Apply(parser, r) IN
         IF res.ok
         THEN Locals("loop", res.rest, Append(v, res.out), FALSE, Pending,
                     <<Call(parser, r)>>)
         ELSE Locals("done", r, v, FALSE, Ok(r, v), <<Call(parser, r)>>)
    ELSE Locals("done", r, v, FALSE, Ok(r, v), <<>>)

\* delimited, mutated: the right parser is applied but its remainder dropped
delimited_norest(l, main, r, toks) ==
    LET rl == Apply(l, toks) IN
    IF ~rl.ok THEN [result |-> rl, called |-> <<Call(l, toks)>>]
    ELSE LET rm == Apply(main, rl.rest) IN
         IF ~rm.ok
         THEN [result |-> rm, called |-> <<Call(l, toks), Call(main, rl.rest)>>]
         ELSE LET rr == Apply(r, rm.rest) IN
              LET c == <<Call(l, toks), Call(main, rl.rest), Call(r, rm.rest)>> IN
              IF ~rr.ok THEN [result |-> rr, called |-> c]
              ELSE [result |-> Ok(rm.rest, rm.out), called |-> c]

\* delimited: l, main, r in sequence, each `?` returning the error early
delimited(l, main, r, toks) ==
    LET rl == Apply(l, toks) IN
    IF ~rl.ok THEN [result |-> rl, called |-> <<Call(l, toks)>>]
    ELSE LET rm == Apply(main, rl.rest) IN
         IF ~rm.ok
         THEN [result |-> rm, called |-> <<Call(l, toks), Call(main, rl.rest)>>]
         ELSE LET rr == Apply(r, rm.rest) IN
              LET c == <<Call(l, toks), Call(main, rl.rest), Call(r, rm.rest)>> IN
              IF ~rr.ok THEN [result |-> rr, called |-> c]
              ELSE [result |-> Ok(rr.rest, rm.out), called |-> c]

\* separated_list0, mutated: a parsed separator does not advance rest
separated_list0_iter_stay(separator_parser, item_parser, toks, r, its) ==
    IF toks # <<>>
    THEN LET ri == Apply(item_parser, r) IN
         IF ~ri.ok
         THEN Locals("done", r, its, FALSE, Ok(r, its), <<Call(item_parser, r)>>)
         ELSE LET r1 == ri.rest
                  its1 == Append(its, ri.out) IN
              IF r1 = <<>>
              THEN Locals("done", r1, its1, FALSE, Ok(r1, its1),
                          <<Call(item_parser, r)>>)
              ELSE LET rs == Apply(separator_parser, r1)
                       c == <<Call(item_parser, r), Call(separator_parser, r1)>> IN
                   IF rs.ok
                   THEN Locals("loop", r1, its1, FALSE, Pending, c)
                   ELSE Locals("done", r1, its1, FALSE, Ok(r1, its1), c)
    ELSE Locals("done", r, its, FALSE, Ok(<<>>, <<>>), <<>>)

\* separated_list0: one pass through the while loop (condition check included)
separated_list0_iter(separator_parser, item_parser, toks, r, its) ==
    IF toks # <<>>
    THEN LET ri == Apply(item_parser, r) IN
         IF ~ri.ok
         THEN Locals("done", r, its, FALSE, Ok(r, its), <<Call(item_parser, r)>>)
         ELSE LET r1 == ri.rest
                  its1 == Append(its, ri.out) IN
              IF r1 = <<>>
              THEN Locals("done", r1, its1, FALSE, Ok(r1, its1),
                          <<Call(item_parser, r)>>)
              ELSE LET rs == Apply(separator_parser, r1)
                       c == <<Call(item_parser, r), Call(separator_parser, r1)>> IN
                   IF rs.ok
                   THEN Locals("loop", rs.rest, its1, FALSE, Pending, c)
                   ELSE Locals("done", r1, its1, FALSE, Ok(r1, its1), c)
    ELSE Locals("done", r, its, FALSE, Ok(<<>>, <<>>), <<>>)

\* separated_list1, mutated: the empty input yields an empty list
separated_list1_iter_empty(separator_parser, item_parser, toks, r, its) ==
    IF toks # <<>>
    THEN LET ri == Apply(item_parser, r) IN
         IF ~ri.ok
         THEN IF Len(its) > 0
              THEN Locals("done", r, its, FALSE, Ok(r, its),
                          <<Call(item_parser, r)>>)
              ELSE Locals("done", r, its, FALSE,
                          with_tokens_consumed(ri, Len(toks) - Len(r)),
                          <<Call(item_parser, r)>>)
         ELSE LET r1 == ri.rest
                  its1 == Append(its, ri.out) IN
              IF r1 = <<>>
              THEN Locals("done", r1, its1, FALSE, Ok(r1, its1),
                          <<Call(item_parser, r)>>)
              ELSE LET rs == Apply(separator_parser, r1)
                       c == <<Call(item_parser, r), Call(separator_parser, r1)>> IN
                   IF rs.ok
                   THEN Locals("loop", rs.rest, its1, FALSE, Pending, c)
                   ELSE Locals("done", r1, its1, FALSE, Ok(r1, its1), c)
    ELSE Locals("done", r, its, FALSE, Ok(<<>>, <<>>), <<>>)

\* separated_list1: one pass through the while loop (condition check included)
separated_list1_iter(separator_parser, item_parser, toks, r, its) ==
    IF toks # <<>>
    THEN LET ri == Apply(item_parser, r) IN
         IF ~ri.ok
         THEN IF Len(its) > 0
              THEN Locals("done", r, its, FALSE, Ok(r, its),
                          <<Call(item_parser, r)>>)
              ELSE Locals("done", r, its, FALSE,
                          with_tokens_consumed(ri, Len(toks) - Len(r)),
                          <<Call(item_parser, r)>>)
         ELSE LET r1 == ri.rest
                  its1 == Append(its, ri.out) IN
              IF r1 = <<>>
              THEN Locals("done", r1, its1, FALSE, Ok(r1, its1),
                          <<Call(item_parser, r)>>)
              ELSE LET rs == Apply(separator_parser, r1)
                       c == <<Call(item_parser, r), Call(separator_parser, r1)>> IN
                   IF rs.ok
                   THEN Locals("loop", rs.rest, its1, FALSE, Pending, c)
                   ELSE Locals("done", r1, its1, FALSE, Ok(r1, its1), c)
    ELSE Locals("done", r, its, FALSE, Err(<<NotEnoughToken>>, 0), <<>>)

\* the transform handed to map
mapper(o) == [mapped |-> o]

\* map, mutated: a failure is labelled with a context of its own
map_ctx(parser, toks) ==
    LET res == Apply(parser, toks) IN
    IF ~res.ok
    THEN [result |-> Err(res.errors \o <<Context("map")>>, res.tokens_consumed),
          called |-> <<Call(parser, toks)>>]
    ELSE [result |-> Ok(res.rest, mapper(res.out)),
          called |-> <<Call(parser, toks)>>]

\* map
map(parser, toks) ==
    LET res == Apply(parser, toks) IN
    IF ~res.ok
    THEN [result |-> res, called |-> <<Call(parser, toks)>>]
    ELSE [result |-> Ok(res.rest, mapper(res.out)),
          called |-> <<Call(parser, toks)>>]

\* ---------------------------------------------------------------- state machine
Init ==
    /\ comb = "none"
    /\ args = <<>>
    /\ tokens = <<>>
    /\ rest = <<>>
    /\ vec = <<>>
    /\ items = <<>>
    /\ succeeded_at_least_once = FALSE
    /\ pc = "idle"
    /\ result = Pending
    /\ calls = <<>>

\* a closure returned by a looping combinator is invoked: locals are set up
Enter(name, ps, s) ==
    /\ comb' = name
    /\ args' = ps
    /\ tokens' = s
    /\ rest' = s
    /\ vec' = <<>>
    /\ items' = <<>>
    /\ succeeded_at_least_once' = FALSE
    /\ pc' = "loop"
    /\ result' = Pending
    /\ calls' = <<>>

\* a closure returned by a loop-free combinator is invoked and returns
Run(name, ps, s, out) ==
    /\ comb' = name
    /\ args' = ps
    /\ tokens' = s
    /\ rest' = s
    /\ vec' = <<>>
    /\ items' = <<>>
    /\ succeeded_at_least_once' = FALSE
    /\ pc' = "done"
    /\ result' = out.result
    /\ calls' = out.called

CallMany1 ==
    /\ pc = "idle"
    /\ \E p \in Parsers, s \in Inputs : Enter("many1", <<p>>, s)

StepMany1 ==
    /\ pc = "loop" /\ comb = "many1"
    /\ Len(vec) < MaxLen + MaxStall
    /\ LET n == many1_iter(args[1], rest, vec, succeeded_at_least_once) IN
       /\ pc' = n.pc
       /\ rest' = n.rest
       /\ vec' = n.vec
       /\ succeeded_at_least_once' = n.succ
       /\ result' = n.result
       /\ calls' = calls \o n.called
    /\ UNCHANGED <<comb, args, tokens, items>>

CallMany0 ==
    /\ pc = "idle"
    /\ \E p \in Parsers, s \in Inputs : Enter("many0", <<p>>, s)

StepMany0 ==
    /\ pc = "loop" /\ comb = "many0"
    /\ Len(vec) < MaxLen + MaxStall
    /\ LET n == many0_iter(args[1], rest, vec) IN
       /\ pc' = n.pc
       /\ rest' = n.rest
       /\ vec' = n.vec
       /\ result' = n.result
       /\ calls' = calls \o n.called
    /\ UNCHANGED <<comb, args, tokens, items, succeeded_at_least_once>>

CallOpt ==
    /\ pc = "idle"
    /\ \E p \in Parsers, s \in Inputs :
        Run("opt", <<p>>, s, [result |-> opt(p, s), called |-> <<Call(p, s)>>])

CallDelimited ==
    /\ pc = "idle"
    /\ \E l \in Parsers, main \in Parsers, r \in Parsers, s \in Inputs :
        Run("delimited", <<l, main, r>>, s, delimited(l, main, r, s))

CallSeparatedList0 ==
    /\ pc = "idle"
    /\ \E sep \in Parsers, item \in Parsers, s \in Inputs :
        Enter("separated_list0", <<sep, item>>, s)

StepSeparatedList0 ==
    /\ pc = "loop" /\ comb = "separated_list0"
    /\ Len(items) < MaxLen + MaxStall
    /\ LET n == separated_list0_iter(args[1], args[2], tokens, rest, items) IN
       /\ pc' = n.pc
       /\ rest' = n.rest
       /\ items' = n.vec
       /\ result' = n.result
       /\ calls' = calls \o n.called
    /\ UNCHANGED <<comb, args, tokens, vec, succeeded_at_least_once>>

CallSeparatedList1 ==
    /\ pc = "idle"
    /\ \E sep \in Parsers, item \in Parsers, s \in Inputs :
        Enter("separated_list1", <<sep, item>>, s)

StepSeparatedList1 ==
    /\ pc = "loop" /\ comb = "separated_list1"
    /\ Len(items) < MaxLen + MaxStall
    /\ LET n == separated_list1_iter(args[1], args[2], tokens, rest, items) IN
       /\ pc' = n.pc
       /\ rest' = n.rest
       /\ items' = n.vec
       /\ result' = n.result
       /\ calls' = calls \o n.called
    /\ UNCHANGED <<comb, args, tokens, vec, succeeded_at_least_once>>

CallMap ==
    /\ pc = "idle"
    /\ \E p \in Parsers, s \in Inputs : Run("map", <<p>>, s, map(p, s))

Next ==
    \/ CallMany1
    \/ StepMany1
    \/ CallMany0
    \/ StepMany0
    \/ CallOpt
    \/ CallDelimited
    \/ CallSeparatedList0
    \/ StepSeparatedList0
    \/ CallSeparatedList1
    \/ StepSeparatedList1
    \/ CallMap

Spec == Init /\ [][Next]_vars

Done(name) == pc = "done" /\ comb = name

\* ---------------------------------------------------------------- properties
\* C1: many1(p) on s returns an error exactly when p on s returns an error,
\* and then the error is p's error, for every s including the empty slice.
C1_Many1FailsIffInnerFails ==
    Done("many1") =>
        LET r == Apply(args[1], tokens) IN
        /\ (~result.ok) <=> (~r.ok)
        /\ (~result.ok) => result = r

\* C2: whenever many1(p) returns success, on any input including the empty
\* slice, the collected sequence holds at least one item.
C2_Many1AtLeastOne ==
    (Done("many1") /\ result.ok) => Len(result.out) >= 1

\* the input item sep item sep handed to a separated list of leaf parsers
TrailingSeparatorCase ==
    /\ pc = "done"
    /\ comb \in {"separated_list0", "separated_list1"}
    /\ args[1].kind = "leaf"
    /\ args[2].kind = "leaf"
    /\ args[1].tok # args[2].tok
    /\ tokens = <<args[2].tok, args[1].tok, args[2].tok, args[1].tok>>

\* C3 as stated: on item sep item sep, separated_list0 and separated_list1
\* succeed with two items and leave the trailing separator in the remainder.
C3_TrailingSeparatorLeft ==
    TrailingSeparatorCase =>
        /\ result.ok
        /\ Len(result.out) = 2
        /\ result.rest = <<args[1].tok>>

\* C3 amended: on item sep item sep, separated_list0 and separated_list1
\* succeed with exactly the two items and an empty remainder: the trailing
\* separator is consumed.
C3_TrailingSeparatorConsumed ==
    TrailingSeparatorCase =>
        /\ result.ok
        /\ result.out = <<args[2].tok, args[2].tok>>
        /\ result.rest = <<>>

C3_Witness ==
    /\ TrailingSeparatorCase
    /\ comb = "separated_list0"
    /\ Len(calls) = 5
    /\ calls[4].res.ok
    /\ ~calls[5].res.ok

\* C4: every loop iteration of many0, many1, separated_list0 and
\* separated_list1 either strictly shortens the remainder or exits the loop.
C4_IterationShortensOrExits ==
    [][(pc = "loop" /\ pc' = "loop") => Len(rest') < Len(rest)]_vars

\* C5: many0 and separated_list0 never return an error, their remainder is a
\* suffix of the input, and the empty input gives an empty sequence and an
\* empty remainder.
C5_ZeroListsNeverFail ==
    (pc = "done" /\ comb \in {"many0", "separated_list0"}) =>
        /\ result.ok
        /\ IsSuffix(result.rest, tokens)
        /\ tokens = <<>> => (result.out = <<>> /\ result.rest = <<>>)

C5_Witness ==
    /\ Done("many0")
    /\ Len(calls) = 3
    /\ ~calls[3].res.ok
    /\ Len(result.out) = 2
    /\ Len(result.rest) = 1

\* C6: opt(p) never returns an error; it returns (rest, Some(o)) when p
\* succeeds with (rest, o) and (original input, None) when p fails.
C6_OptNeverFails ==
    Done("opt") =>
        LET r == Apply(args[1], tokens) IN
        /\ result.ok
        /\ r.ok => (result.rest = r.rest /\ result.out = Some(r.out))
        /\ (~r.ok) => (result.rest = tokens /\ result.out = None)

C6_Witness ==
    /\ Done("opt")
    /\ ~calls[1].res.ok
    /\ calls[1].res.tokens_consumed = 1
    /\ result.ok
    /\ Len(result.rest) = 2

\* C7: delimited(l, m, r) invokes l on the input, m on l's remainder and r on
\* m's remainder, in that order; on success it returns r's remainder and m's
\* output; at the first failure it stops and returns that error unchanged.
C7_DelimitedSequence ==
    Done("delimited") =>
        LET rl == Apply(args[1], tokens) IN
        /\ Len(calls) >= 1
        /\ calls[1] = Call(args[1], tokens)
        /\ (~rl.ok) => (Len(calls) = 1 /\ result = rl)
        /\ rl.ok =>
            LET rm == Apply(args[2], rl.rest) IN
            /\ Len(calls) >= 2
            /\ calls[2] = Call(args[2], rl.rest)
            /\ (~rm.ok) => (Len(calls) = 2 /\ result = rm)
            /\ rm.ok =>
                LET rr == Apply(args[3], rm.rest) IN
                /\ Len(calls) = 3
                /\ calls[3] = Call(args[3], rm.rest)
                /\ (~rr.ok) => result = rr
                /\ rr.ok => result = Ok(rr.rest, rm.out)

C7_Witness ==
    /\ Done("delimited")
    /\ result.ok
    /\ Len(calls) = 3
    /\ Len(calls[3].input) > Len(result.rest)
    /\ Len(tokens) = 4
    /\ Len(result.rest) = 1

\* C8: separated_list1 on the empty input returns the error [NotEnoughToken]
\* with tokens_consumed 0 and invokes neither the item nor the separator parser.
C8_SeparatedList1Empty ==
    (Done("separated_list1") /\ tokens = <<>>) =>
        /\ result = Err(<<NotEnoughToken>>, 0)
        /\ calls = <<>>

C8_Witness ==
    /\ Done("separated_list1")
    /\ tokens = <<>>
    /\ ~result.ok

\* the returned error is the first failure of an inner parser during the
\* call: same errors, tokens_consumed kept (or, for separated_list1, set to
\* the number of tokens before the failing attempt)
FirstFailurePropagated ==
    \E i \in 1..Len(calls) :
        /\ ~calls[i].res.ok
        /\ \A j \in 1..(i - 1) : calls[j].res.ok
        /\ result.errors = calls[i].res.errors
        /\ \/ result.tokens_consumed = calls[i].res.tokens_consumed
           \/ /\ comb = "separated_list1"
              /\ result.tokens_consumed = Len(tokens) - Len(calls[i].input)

PropagatingError ==
    /\ pc = "done"
    /\ comb \in {"many1", "separated_list1", "delimited", "map"}
    /\ ~result.ok

\* C9 as stated: every error returned by many1, separated_list1, delimited or
\* map is the first failure of one of its inner parsers.
C9_NoManufacturedError ==
    PropagatingError => FirstFailurePropagated

\* C9 amended: every error returned by many1, separated_list1, delimited or
\* map is the first failure of one of its inner parsers, except that
\* separated_list1 on the empty input returns [NotEnoughToken] with
\* tokens_consumed 0 of its own, no inner parser having been invoked.
C9_NoManufacturedErrorButEmpty ==
    PropagatingError =>
        \/ FirstFailurePropagated
        \/ /\ comb = "separated_list1"
           /\ tokens = <<>>
           /\ calls = <<>>
           /\ result = Err(<<NotEnoughToken>>, 0)

C9_Witness ==
    /\ Done("map")
    /\ ~result.ok
    /\ result.tokens_consumed = 1
    /\ Len(result.errors) = 2

\* C10: on a non-empty input separated_list1 returns an error only when the
\* first item attempt fails, with the item parser's errors and tokens_consumed
\* set to the input length minus the remainder at that attempt; once an item
\* is collected every later failure gives success with the items collected.
C10_SeparatedList1FirstItem ==
    (Done("separated_list1") /\ tokens # <<>>) =>
        /\ Len(calls) >= 1
        /\ calls[1] = Call(args[2], tokens)
        /\ (~result.ok) =>
            /\ ~calls[1].res.ok
            /\ result.errors = calls[1].res.errors
            /\ result.tokens_consumed = Len(tokens) - Len(calls[1].input)
        /\ calls[1].res.ok =>
            /\ result.ok
            /\ Len(result.out) >= 1
            /\ result.out = items

C10_Witness ==
    /\ Done("separated_list1")
    /\ tokens # <<>>
    /\ ~result.ok
    /\ calls[1].res.tokens_consumed = 1
    /\ result.tokens_consumed = 0
====
